---- MODULE Spec2Model ----
(***************************************************************************)
(* Oracle Data Aggregation & Consensus Engine of ZeroGravis.               *)
(*                                                                         *)
(* The model follows one request through POST /api/v1/oracle/collect (or   *)
(* POST /api/v1/oracle/test) into                                          *)
(* OracleAggregationService.collectData: request validation in the route,  *)
(* collectFromSources (routing + Promise.allSettled), calculateConsensus   *)
(* and its three algorithms, the best-effort chain submission and the      *)
(* response objects.                                                       *)
(*                                                                         *)
(* Numbers: JavaScript doubles are modelled as exact rationals [n, d] in   *)
(* lowest terms with d > 0.  Confidences and reliabilities of the source   *)
(* are decimal literals with two digits and are held as n/100.             *)
(***************************************************************************)
EXTENDS Integers, Sequences, FiniteSets, TLC

\* ------------------------------------------------------------------ bounds
MaxSources == 2
MaxObs == 2

\* ------------------------------------------------------- rational numbers
Abs(x) == IF x < 0 THEN -x ELSE x

RECURSIVE Gcd(_, _)
Gcd(a, b) == IF b = 0 THEN a ELSE Gcd(b, a % b)

Rat(n, d) ==
  LET g == Gcd(Abs(n), Abs(d))
      s == IF d < 0 THEN -1 ELSE 1
  IN  IF n = 0 THEN [n |-> 0, d |-> 1]
      ELSE [n |-> s * (n \div g), d |-> s * (d \div g)]

RZero == [n |-> 0, d |-> 1]
ROne == [n |-> 1, d |-> 1]
RAdd(a, b) == Rat(a.n * b.d + b.n * a.d, a.d * b.d)
RSub(a, b) == Rat(a.n * b.d - b.n * a.d, a.d * b.d)
RMul(a, b) == Rat(a.n * b.n, a.d * b.d)
RDivInt(a, k) == Rat(a.n, a.d * k)
RDiv(a, b) == Rat(a.n * b.d, a.d * b.n)
RLeq(a, b) == a.n * b.d <= b.n * a.d
RLess(a, b) == a.n * b.d < b.n * a.d
RAbs(a) == [n |-> Abs(a.n), d |-> a.d]
RMin(a, b) == IF RLeq(a, b) THEN a ELSE b
Pct(k) == Rat(k, 100)

RECURSIVE RSum(_)
RSum(s) == IF s = <<>> THEN RZero ELSE RAdd(Head(s), RSum(Tail(s)))

\* ---------------------------------------------------------- sequence help
SeqUpTo(S, k) == UNION {[1..m -> S] : m \in 0..k}

\* --------------------------------------------------------------- enums
\* OracleDataType
PRICE_FEED == "price_feed"
WEATHER == "weather"
SPACE == "space"
CRYPTO_METRICS == "crypto_metrics"
OracleDataType == {PRICE_FEED, WEATHER, SPACE, CRYPTO_METRICS, "iot_sensor", "financial"}

\* ConsensusMethod
MAJORITY_VOTE == "majority"
WEIGHTED_AVERAGE == "weighted_average"
MEDIAN == "median"
AI_CONSENSUS == "ai_consensus"
ConsensusMethod == {MAJORITY_VOTE, WEIGHTED_AVERAGE, MEDIAN, AI_CONSENSUS}

\* an absent (undefined) string-valued field
Absent == "undefined"

\* ----------------------------------------------------- data of the model
NoConfidence == [present |-> FALSE, v |-> RZero]
Conf(k) == [present |-> TRUE, v |-> Pct(k)]

NoPrice == [present |-> FALSE, v |-> RZero]
Price(r) == [present |-> TRUE, v |-> r]

\* value: the category specific payload; id stands for its non-numeric
\* fields (symbol, currency, roundId, ... / location, condition, ...)
Value(id, price) == [id |-> id, price |-> price]
NoValue == Value(0, NoPrice)

NoData == [source |-> Absent, dataType |-> Absent, value |-> NoValue,
           confidence |-> NoConfidence]

\* an OracleResponse (part_012:95-102); error is Absent on success
OkResponse(src, dp) == [success |-> TRUE, data |-> dp, error |-> Absent, source |-> src]
FailResponse(src, err) == [success |-> FALSE, data |-> NoData, error |-> err, source |-> src]

\* --------------------------------------------------------- source adapters
\* the adapter method a pending call runs
GET_PRICE_FEED == "getPriceFeed"
GET_CURRENT_WEATHER == "getCurrentWeather"
GET_ASTEROID_DATA == "getAsteroidData"
GET_EARTH_IMAGERY == "getEarthImagery"
GET_MARS_WEATHER == "getMarsWeatherData"
GET_APOD == "getApod"

\* ChainlinkAdapter.priceFeeds: the symbols a feed contract is known for
priceFeeds == {"ETH/USD", "BTC/USD", "LINK/USD"}

\* the source identifier each adapter method writes on its response and on
\* its data point
AdapterSource(fn) ==
  CASE fn = GET_PRICE_FEED -> "chainlink"
    [] fn = GET_CURRENT_WEATHER -> "openweathermap"
    [] OTHER -> "nasa"

\* the dataType each adapter method writes on its data point
AdapterDataType(fn) ==
  CASE fn = GET_PRICE_FEED -> PRICE_FEED
    [] fn = GET_CURRENT_WEATHER -> WEATHER
    [] OTHER -> SPACE

\* the self-reported confidence each adapter method writes, in hundredths
AdapterConfidence(fn) ==
  CASE fn = GET_PRICE_FEED -> 95
    [] fn = GET_CURRENT_WEATHER -> 85
    [] fn = GET_ASTEROID_DATA -> 92
    [] fn = GET_EARTH_IMAGERY -> 88
    [] fn = GET_MARS_WEATHER -> 85
    [] OTHER -> 95

\* prices the price source may report (CoinGecko quote or fallback table)
PriceSet == {100, 120}

\* the error messages an adapter's catch block reports
ERR_NO_FEED == "Price feed not available for symbol"
ERR_ADAPTER == "adapter error"
ERR_REJECTED == "adapter promise rejected"
ERR_UNKNOWN == "Unknown error"

\* the successful response of adapter method fn; id identifies the payload
\* and p is the quoted price (used by getPriceFeed only)
AdapterSuccess(fn, id, p) ==
  OkResponse(AdapterSource(fn),
             [source |-> AdapterSource(fn),
              dataType |-> AdapterDataType(fn),
              value |-> Value(id, IF fn = GET_PRICE_FEED THEN Price(Rat(p, 1)) ELSE NoPrice),
              confidence |-> Conf(AdapterConfidence(fn))])

\* the failure response of adapter method fn (its catch block)
AdapterFailure(fn, err) == FailResponse(AdapterSource(fn), err)

\* the responses a call of fn with argument arg can be fulfilled with
AdapterOutcomes(fn, arg, id) ==
  IF fn = GET_PRICE_FEED /\ arg \notin priceFeeds
  THEN {AdapterFailure(fn, ERR_NO_FEED)}
  ELSE {AdapterSuccess(fn, id, p) : p \in (IF fn = GET_PRICE_FEED THEN PriceSet ELSE {0})}
       \cup {AdapterFailure(fn, ERR_ADAPTER)}

\* ------------------------------------------------------ reliability table
\* getSourceReliability: reliabilityScores[source] || 0.5
getSourceReliability(source) ==
  CASE source = "chainlink" -> Pct(95)
    [] source = "weather" -> Pct(80)
    [] source = "nasa" -> Pct(90)
    [] source = "aggregated" -> Pct(85)
    [] OTHER -> Pct(50)

\* ------------------------------------------------------ consensus methods
\* dp.confidence || 0.5 : an absent confidence and the number 0 are both falsy
DataConfidence(dp) ==
  IF dp.confidence.present /\ dp.confidence.v # RZero THEN dp.confidence.v ELSE Pct(50)

\* weights[i] = sourceReliability * dataConfidence
Weights(dataPoints) ==
  [i \in 1..Len(dataPoints) |->
     RMul(getSourceReliability(dataPoints[i].source), DataConfidence(dataPoints[i]))]

Prices(dataPoints) == [i \in 1..Len(dataPoints) |-> dataPoints[i].value.price.v]

\* { ...dataPoints[0].value, price: p }
WithPrice(value, p) == [value EXCEPT !.price = Price(p)]

NullResult == [value |-> NoValue, confidence |-> RZero]

\* index (1-based) of the first largest weight: the forEach keeps the first
\* maximum because it replaces the best only on weight > bestWeight
RECURSIVE BestIndex(_, _, _)
BestIndex(weights, i, best) ==
  IF i > Len(weights) THEN best
  ELSE BestIndex(weights, i + 1, IF RLess(weights[best], weights[i]) THEN i ELSE best)

\* prices.sort((a, b) => a - b)
RECURSIVE Insert(_, _)
Insert(x, s) ==
  IF s = <<>> THEN <<x>>
  ELSE IF RLeq(x, Head(s)) THEN <<x>> \o s
       ELSE <<Head(s)>> \o Insert(x, Tail(s))

RECURSIVE SortPrices(_)
SortPrices(s) == IF s = <<>> THEN <<>> ELSE Insert(Head(s), SortPrices(Tail(s)))

majorityVoteConsensus_FirstPrice(dataPoints) ==
  IF Len(dataPoints) = 0 THEN NullResult
  ELSE IF dataPoints[1].dataType = PRICE_FEED
  THEN LET prices == Prices(dataPoints)
           avgPrice == RDivInt(RSum(prices), Len(prices))
           tolerance == RMul(prices[1], Pct(5))
           consensusPrices ==
             SelectSeq(prices, LAMBDA price : RLeq(RAbs(RSub(price, prices[1])), tolerance))
       IN  [value |-> WithPrice(dataPoints[1].value, avgPrice),
            confidence |-> Rat(Len(consensusPrices), Len(prices))]
  ELSE [value |-> dataPoints[1].value, confidence |-> Rat(1, Len(dataPoints))]

majorityVoteConsensus(dataPoints) ==
  IF Len(dataPoints) = 0 THEN NullResult
  ELSE IF dataPoints[1].dataType = PRICE_FEED
  THEN LET prices == Prices(dataPoints)
           avgPrice == RDivInt(RSum(prices), Len(prices))
           tolerance == RMul(avgPrice, Pct(5))
           consensusPrices ==
             SelectSeq(prices, LAMBDA price : RLeq(RAbs(RSub(price, avgPrice)), tolerance))
       IN  [value |-> WithPrice(dataPoints[1].value, avgPrice),
            confidence |-> Rat(Len(consensusPrices), Len(prices))]
  ELSE [value |-> dataPoints[1].value, confidence |-> Rat(1, Len(dataPoints))]

weightedAverageConsensus_FirstWeight(dataPoints) ==
  IF Len(dataPoints) = 0 THEN NullResult
  ELSE LET weights == Weights(dataPoints)
           totalWeight == RSum(weights)
           prices == Prices(dataPoints)
           weightedPrice ==
             RDiv(RSum([i \in 1..Len(dataPoints) |-> RMul(prices[i], weights[1])]),
                  totalWeight)
           bestIndex == BestIndex(weights, 1, 1)
       IN  IF totalWeight = RZero
           THEN [value |-> dataPoints[1].value, confidence |-> RZero]
           ELSE IF dataPoints[1].dataType = PRICE_FEED
           THEN [value |-> WithPrice(dataPoints[1].value, weightedPrice),
                 confidence |-> RMin(RDivInt(totalWeight, Len(dataPoints)), ROne)]
           ELSE [value |-> dataPoints[bestIndex].value,
                 confidence |-> weights[1]]

weightedAverageConsensus_SumOfWeights(dataPoints) ==
  IF Len(dataPoints) = 0 THEN NullResult
  ELSE LET weights == Weights(dataPoints)
           totalWeight == RSum(weights)
           prices == Prices(dataPoints)
           weightedPrice ==
             RDiv(RSum([i \in 1..Len(dataPoints) |-> RMul(prices[i], weights[i])]),
                  totalWeight)
           bestIndex == BestIndex(weights, 1, 1)
       IN  IF totalWeight = RZero
           THEN [value |-> dataPoints[1].value, confidence |-> RZero]
           ELSE IF dataPoints[1].dataType = PRICE_FEED
           THEN [value |-> WithPrice(dataPoints[1].value, weightedPrice),
                 confidence |-> totalWeight]
           ELSE [value |-> dataPoints[bestIndex].value,
                 confidence |-> weights[bestIndex]]

weightedAverageConsensus(dataPoints) ==
  IF Len(dataPoints) = 0 THEN NullResult
  ELSE LET weights == Weights(dataPoints)
           totalWeight == RSum(weights)
           prices == Prices(dataPoints)
           weightedPrice ==
             RDiv(RSum([i \in 1..Len(dataPoints) |-> RMul(prices[i], weights[i])]),
                  totalWeight)
           bestIndex == BestIndex(weights, 1, 1)
       IN  IF totalWeight = RZero
           THEN [value |-> dataPoints[1].value, confidence |-> RZero]
           ELSE IF dataPoints[1].dataType = PRICE_FEED
           THEN [value |-> WithPrice(dataPoints[1].value, weightedPrice),
                 confidence |-> RMin(RDivInt(totalWeight, Len(dataPoints)), ROne)]
           ELSE [value |-> dataPoints[bestIndex].value,
                 confidence |-> weights[bestIndex]]

medianConsensus_Unsorted(dataPoints) ==
  IF Len(dataPoints) = 0 THEN NullResult
  ELSE IF dataPoints[1].dataType = PRICE_FEED
  THEN LET prices == Prices(dataPoints)
           n == Len(prices)
           median == IF n % 2 = 0
                     THEN RDivInt(RAdd(prices[n \div 2], prices[(n \div 2) + 1]), 2)
                     ELSE prices[(n \div 2) + 1]
       IN  [value |-> WithPrice(dataPoints[1].value, median), confidence |-> Pct(80)]
  ELSE [value |-> dataPoints[(Len(dataPoints) \div 2) + 1].value, confidence |-> Pct(60)]

medianConsensus(dataPoints) ==
  IF Len(dataPoints) = 0 THEN NullResult
  ELSE IF dataPoints[1].dataType = PRICE_FEED
  THEN LET prices == SortPrices(Prices(dataPoints))
           n == Len(prices)
           median == IF n % 2 = 0
                     THEN RDivInt(RAdd(prices[n \div 2], prices[(n \div 2) + 1]), 2)
                     ELSE prices[(n \div 2) + 1]
       IN  [value |-> WithPrice(dataPoints[1].value, median), confidence |-> Pct(80)]
  ELSE [value |-> dataPoints[(Len(dataPoints) \div 2) + 1].value, confidence |-> Pct(60)]

\* r => r.data!  and  r => r.source  over a response list
DataOf(responses) == [i \in 1..Len(responses) |-> responses[i].data]
SourcesOf(responses) == [i \in 1..Len(responses) |-> responses[i].source]

\* the ConsensusResult of calculateConsensus; threw = TRUE stands for
\* throw new Error(`Unsupported consensus method: ${method}`)
ThrownConsensus == [threw |-> TRUE, value |-> NoValue, confidence |-> RZero,
                    participatingSources |-> <<>>, method |-> Absent, outliers |-> <<>>]

calculateConsensus_AIMerged(responses, method) ==
  LET dataPoints == DataOf(responses)
      result == CASE method = MAJORITY_VOTE -> majorityVoteConsensus(dataPoints)
                  [] method = MEDIAN -> medianConsensus(dataPoints)
                  [] OTHER -> weightedAverageConsensus(dataPoints)
  IN  IF method \notin ConsensusMethod THEN ThrownConsensus
      ELSE [threw |-> FALSE, value |-> result.value, confidence |-> result.confidence,
            participatingSources |-> SourcesOf(responses),
            method |-> IF method = AI_CONSENSUS THEN WEIGHTED_AVERAGE ELSE method,
            outliers |-> <<>>]

calculateConsensus(responses, method) ==
  LET dataPoints == DataOf(responses)
      result == CASE method = MAJORITY_VOTE -> majorityVoteConsensus(dataPoints)
                  [] method = WEIGHTED_AVERAGE -> weightedAverageConsensus(dataPoints)
                  [] method = MEDIAN -> medianConsensus(dataPoints)
                  [] method = AI_CONSENSUS -> weightedAverageConsensus(dataPoints)
                  [] OTHER -> NullResult
  IN  IF method \notin ConsensusMethod THEN ThrownConsensus
      ELSE [threw |-> FALSE, value |-> result.value, confidence |-> result.confidence,
            participatingSources |-> SourcesOf(responses), method |-> method,
            outliers |-> <<>>]

\* ------------------------------------------------------- request bodies
Params(symbol, city, coordinates, spaceDataType) ==
  [symbol |-> symbol, city |-> city, coordinates |-> coordinates,
   spaceDataType |-> spaceDataType]

\* parameters objects of the requests explored (Absent: field not supplied;
\* a request without parameters object behaves as the first one)
ParamsSet ==
  {Params(Absent, Absent, Absent, Absent),
   Params("ETH/USD", Absent, Absent, Absent),
   Params("XYZ/USD", Absent, Absent, Absent),
   Params(Absent, "London", Absent, Absent),
   Params(Absent, Absent, "51.5,-0.1", Absent),
   Params(Absent, "London", "51.5,-0.1", Absent),
   Params("ETH/USD", "London", Absent, Absent),
   Params(Absent, Absent, Absent, "asteroid"),
   Params(Absent, Absent, "51.5,-0.1", "earth_imagery"),
   Params(Absent, Absent, Absent, "mars_weather")}

SourceNames == {"chainlink", "weather", "nasa", "coinbase"}

\* req.body.sources: not supplied, supplied but no array, or an array
SourcesSet ==
  {[kind |-> "missing", items |-> <<>>], [kind |-> "scalar", items |-> <<>>]}
  \cup {[kind |-> "array", items |-> items] : items \in SeqUpTo(SourceNames, MaxSources)}

DataTypeSet == {Absent, "stock", PRICE_FEED, WEATHER, SPACE, CRYPTO_METRICS}
MethodSet == {Absent, "average"} \cup ConsensusMethod

Bodies ==
  [dataType : DataTypeSet, sources : SourcesSet, parameters : ParamsSet,
   consensusMethod : MethodSet]

NoRequest ==
  [dataType |-> Absent, sources |-> [kind |-> "missing", items |-> <<>>],
   parameters |-> Params(Absent, Absent, Absent, Absent), consensusMethod |-> Absent]

\* --------------------------------------------------- POST /collect checks
VALID == "valid"
E_REQUIRED == "dataType and sources are required"
E_NONEMPTY == "sources must be a non-empty array"
E_DATATYPE == "Invalid dataType"
E_METHOD == "Invalid consensusMethod"
E_SOURCES == "Invalid sources"
E_SYMBOL == "symbol parameter is required for price_feed data"
E_CITY == "city parameter is required for weather data"
E_TESTSOURCE == "Invalid source. Must be one of: chainlink, weather, nasa"
E_NOSOURCE == "source parameter is required"

validSources == {"chainlink", "weather", "nasa"}

ValidateCollect_NoLength(body) ==
  IF body.dataType = Absent \/ body.sources.kind = "missing" THEN E_REQUIRED
  ELSE IF body.sources.kind # "array" THEN E_NONEMPTY
  ELSE IF body.dataType \notin OracleDataType THEN E_DATATYPE
  ELSE IF body.consensusMethod # Absent /\ body.consensusMethod \notin ConsensusMethod
       THEN E_METHOD
  ELSE IF \E i \in 1..Len(body.sources.items) : body.sources.items[i] \notin validSources
       THEN E_SOURCES
  ELSE IF body.dataType = PRICE_FEED /\ body.parameters.symbol = Absent THEN E_SYMBOL
  ELSE IF body.dataType = WEATHER /\ body.parameters.city = Absent THEN E_CITY
  ELSE VALID

\* the ValidationError the route throws for a body, or VALID
ValidateCollect(body) ==
  IF body.dataType = Absent \/ body.sources.kind = "missing" THEN E_REQUIRED
  ELSE IF body.sources.kind # "array" \/ Len(body.sources.items) = 0 THEN E_NONEMPTY
  ELSE IF body.dataType \notin OracleDataType THEN E_DATATYPE
  ELSE IF body.consensusMethod # Absent /\ body.consensusMethod \notin ConsensusMethod
       THEN E_METHOD
  ELSE IF \E i \in 1..Len(body.sources.items) : body.sources.items[i] \notin validSources
       THEN E_SOURCES
  ELSE IF body.dataType = PRICE_FEED /\ body.parameters.symbol = Absent THEN E_SYMBOL
  ELSE IF body.dataType = WEATHER /\ body.parameters.city = Absent THEN E_CITY
  ELSE VALID

\* the ValidationError POST /test throws for body.source, or VALID
ValidateTest(source) ==
  IF source = Absent THEN E_NOSOURCE
  ELSE IF source \notin validSources THEN E_TESTSOURCE
  ELSE VALID

\* the sample request POST /test builds for a source
TestRequest(source) ==
  CASE source = "chainlink" ->
         [dataType |-> PRICE_FEED, sources |-> [kind |-> "array", items |-> <<"chainlink">>],
          parameters |-> Params("ETH/USD", Absent, Absent, Absent),
          consensusMethod |-> WEIGHTED_AVERAGE]
    [] source = "weather" ->
         [dataType |-> WEATHER, sources |-> [kind |-> "array", items |-> <<"weather">>],
          parameters |-> Params(Absent, "London", Absent, Absent),
          consensusMethod |-> Absent]
    [] OTHER ->
         [dataType |-> SPACE, sources |-> [kind |-> "array", items |-> <<"nasa">>],
          parameters |-> Params(Absent, Absent, Absent, "apod"),
          consensusMethod |-> Absent]

\* ------------------------------------------------------ dispatch router
Call(fn, arg) == [fn |-> fn, arg |-> arg]

CallsOfSource_AnyCategory(source, request) ==
  CASE source = "chainlink" ->
         IF request.parameters.symbol # Absent
         THEN <<Call(GET_PRICE_FEED, request.parameters.symbol)>> ELSE <<>>
    [] source = "weather" ->
         IF request.parameters.city # Absent
         THEN <<Call(GET_CURRENT_WEATHER, request.parameters.city)>> ELSE <<>>
    [] source = "nasa" -> <<Call(GET_APOD, Absent)>>
    [] OTHER -> <<>>

\* the adapter calls one requested source contributes (the switch body)
CallsOfSource(source, request) ==
  CASE source = "chainlink" ->
         IF request.dataType = PRICE_FEED /\ request.parameters.symbol # Absent
         THEN <<Call(GET_PRICE_FEED, request.parameters.symbol)>> ELSE <<>>
    [] source = "weather" ->
         IF request.dataType = WEATHER /\ request.parameters.city # Absent
         THEN <<Call(GET_CURRENT_WEATHER, request.parameters.city)>> ELSE <<>>
    [] source = "nasa" ->
         IF request.dataType = SPACE
         THEN IF request.parameters.spaceDataType = "asteroid"
              THEN <<Call(GET_ASTEROID_DATA, Absent)>>
              ELSE IF request.parameters.spaceDataType = "earth_imagery"
              THEN <<Call(GET_EARTH_IMAGERY, request.parameters.coordinates)>>
              ELSE IF request.parameters.spaceDataType = "mars_weather"
              THEN <<Call(GET_MARS_WEATHER, Absent)>>
              ELSE <<Call(GET_APOD, Absent)>>
         ELSE <<>>
    [] OTHER -> <<>>

\* for (const source of request.sources) { switch ... promises.push(...) }
RECURSIVE Dispatch(_, _)
Dispatch(sources, request) ==
  IF sources = <<>> THEN <<>>
  ELSE CallsOfSource(Head(sources), request) \o Dispatch(Tail(sources), request)

\* a promise: the call it runs and how it settled
PENDING == "pending"
FULFILLED == "fulfilled"
REJECTED == "rejected"
NoOracleResponse == FailResponse(Absent, Absent)

Pending(call) ==
  [fn |-> call.fn, arg |-> call.arg, status |-> PENDING, value |-> NoOracleResponse,
   reason |-> Absent]

AllSettled_First(ps) == ps = <<>> \/ \E i \in 1..Len(ps) : ps[i].status # PENDING

\* Promise.allSettled(promises) resolves once no promise is pending
AllSettled(ps) == \A i \in 1..Len(ps) : ps[i].status # PENDING

\* responses.map((result, index) => ...) of collectFromSources
SettledResponse(ps, index, request) ==
  IF ps[index].status = FULFILLED THEN ps[index].value
  ELSE FailResponse(request.sources.items[index],
                    IF ps[index].reason # Absent THEN ps[index].reason ELSE ERR_UNKNOWN)

collectFromSources(ps, request) ==
  [index \in 1..Len(ps) |-> SettledResponse(ps, index, request)]

Successful_NoFilter(responses) == responses

\* responses.filter(r => r.success)
Successful(responses) == SelectSeq(responses, LAMBDA r : r.success)

\* ------------------------------------------------------------ collectData
NO_DATA == "No oracle sources returned valid data"
E_UNSUPPORTED == "Unsupported consensus method"
E_CHAIN == "Oracle data submission failed"

EffectiveMethod_Median(request) ==
  IF request.consensusMethod = Absent THEN MEDIAN ELSE request.consensusMethod

\* request.consensusMethod || ConsensusMethod.WEIGHTED_AVERAGE
EffectiveMethod(request) ==
  IF request.consensusMethod = Absent THEN WEIGHTED_AVERAGE ELSE request.consensusMethod

NoAggregatedData ==
  [dataType |-> Absent, sources |-> <<>>, aggregatedValue |-> NoValue,
   confidence |-> RZero, dataPoints |-> <<>>, consensusMethod |-> Absent]

AggregatedData_Requested(request, successfulResponses, result) ==
  [dataType |-> request.dataType,
   sources |-> request.sources.items,
   aggregatedValue |-> result.value,
   confidence |-> result.confidence,
   dataPoints |-> DataOf(successfulResponses),
   consensusMethod |-> EffectiveMethod(request)]

\* const aggregatedData: AggregatedOracleData = { ... }
AggregatedData(request, successfulResponses, result) ==
  [dataType |-> request.dataType,
   sources |-> SourcesOf(successfulResponses),
   aggregatedValue |-> result.value,
   confidence |-> result.confidence,
   dataPoints |-> DataOf(successfulResponses),
   consensusMethod |-> EffectiveMethod(request)]

NoResponse ==
  [success |-> FALSE, hasAggregatedData |-> FALSE, aggregatedData |-> NoAggregatedData,
   error |-> Absent, sourcesUsed |-> <<>>, consensusAchieved |-> FALSE]

FailureResponse_NoSources(request, error) ==
  [success |-> FALSE, hasAggregatedData |-> FALSE, aggregatedData |-> NoAggregatedData,
   error |-> error, sourcesUsed |-> <<>>, consensusAchieved |-> FALSE]

\* the two failure returns of collectData (no valid data; catch block)
FailureResponse(request, error) ==
  [success |-> FALSE, hasAggregatedData |-> FALSE, aggregatedData |-> NoAggregatedData,
   error |-> error, sourcesUsed |-> request.sources.items, consensusAchieved |-> FALSE]

SuccessResponse_AtLeastHalf(aggData, successfulResponses, result) ==
  [success |-> TRUE, hasAggregatedData |-> TRUE, aggregatedData |-> aggData,
   error |-> Absent, sourcesUsed |-> SourcesOf(successfulResponses),
   consensusAchieved |-> RLeq(Rat(1, 2), result.confidence)]

\* the success return of collectData
SuccessResponse(aggData, successfulResponses, result) ==
  [success |-> TRUE, hasAggregatedData |-> TRUE, aggregatedData |-> aggData,
   error |-> Absent, sourcesUsed |-> SourcesOf(successfulResponses),
   consensusAchieved |-> RLess(Rat(1, 2), result.confidence)]

\* ------------------------------------------------------------ HTTP replies
NoHttp == [status |-> 0, success |-> FALSE, error |-> Absent, sourcesUsed |-> <<>>]

\* next(new ValidationError(message)): statusCode 400
HttpValidationError(message) ==
  [status |-> 400, success |-> FALSE, error |-> message, sourcesUsed |-> <<>>]

\* what the route sends for a collectData result
HttpReply(route, result) ==
  IF route = "direct" THEN NoHttp
  ELSE IF route = "test"
  THEN [status |-> 200, success |-> result.success, error |-> result.error,
        sourcesUsed |-> <<>>]
  ELSE IF ~result.success
  THEN [status |-> 503, success |-> FALSE, error |-> result.error,
        sourcesUsed |-> result.sourcesUsed]
  ELSE [status |-> 200, success |-> TRUE, error |-> Absent,
        sourcesUsed |-> result.sourcesUsed]

\* ------------------------------------------------------------------ state
VARIABLES
  pc,               \* where the request handler stands
  entry,            \* who called collectData: the route "collect" | "test", or "direct"
  request,          \* the request body / CollectDataRequest
  promises,         \* the adapter calls issued by collectFromSources
  responses,        \* the OracleResponse list collectFromSources returned
  consensusResult,  \* the ConsensusResult of calculateConsensus
  aggregatedData,   \* the AggregatedOracleData built after consensus
  chain,            \* the submitOracleData call of this request
  response,         \* the CollectDataResponse returned by collectData
  http,             \* the HTTP reply of the route
  peer              \* the other request in flight: its own pc ... http

vars == <<pc, entry, request, promises, responses, consensusResult, aggregatedData,
          chain, response, http, peer>>

NoChain == [calls |-> 0, status |-> "none"]
NoConsensus == [threw |-> FALSE, value |-> NoValue, confidence |-> RZero,
                participatingSources |-> <<>>, method |-> Absent, outliers |-> <<>>]

\* a request slot nothing has been received for
IdleRequest ==
  [pc |-> "idle", entry |-> "none", request |-> NoRequest, promises |-> <<>>,
   responses |-> <<>>, consensusResult |-> NoConsensus,
   aggregatedData |-> NoAggregatedData, chain |-> NoChain, response |-> NoResponse,
   http |-> NoHttp]

Init ==
  /\ pc = "idle"
  /\ entry = "none"
  /\ request = NoRequest
  /\ promises = <<>>
  /\ responses = <<>>
  /\ consensusResult = NoConsensus
  /\ aggregatedData = NoAggregatedData
  /\ chain = NoChain
  /\ response = NoResponse
  /\ http = NoHttp
  /\ peer = IdleRequest

\* a validated request enters collectData: collectFromSources issues the
\* adapter calls and awaits Promise.allSettled
StartCollectData(route, req) ==
  /\ pc' = "collecting"
  /\ entry' = route
  /\ request' = req
  /\ promises' = [i \in 1..Len(Dispatch(req.sources.items, req)) |->
                    Pending(Dispatch(req.sources.items, req)[i])]
  /\ UNCHANGED <<responses, consensusResult, aggregatedData, chain, response, http, peer>>

\* the route throws a ValidationError before collectData is called
RejectRequest(route, req, message) ==
  /\ pc' = "rejected"
  /\ entry' = route
  /\ request' = req
  /\ http' = HttpValidationError(message)
  /\ UNCHANGED <<promises, responses, consensusResult, aggregatedData, chain, response, peer>>

\* router.post('/collect')
PostCollect ==
  /\ pc = "idle"
  /\ \E body \in Bodies :
       IF ValidateCollect(body) = VALID
       THEN StartCollectData("collect", body)
       ELSE RejectRequest("collect", body, ValidateCollect(body))

\* router.post('/test')
TestSource ==
  /\ pc = "idle"
  /\ \E source \in SourceNames \cup {Absent} :
       IF ValidateTest(source) = VALID
       THEN StartCollectData("test", TestRequest(source))
       ELSE RejectRequest("test", NoRequest, ValidateTest(source))

\* an adapter call returns an OracleResponse (success or its catch block)
AdapterFulfil ==
  /\ pc = "collecting"
  /\ \E i \in 1..Len(promises) :
       /\ promises[i].status = PENDING
       /\ \E r \in AdapterOutcomes(promises[i].fn, promises[i].arg, i) :
            promises' = [promises EXCEPT ![i].status = FULFILLED, ![i].value = r]
  /\ UNCHANGED <<pc, entry, request, responses, consensusResult, aggregatedData, chain,
                 response, http, peer>>

\* an adapter promise rejects, with or without a message on its reason
AdapterReject ==
  /\ pc = "collecting"
  /\ \E i \in 1..Len(promises) :
       /\ promises[i].status = PENDING
       /\ \E reason \in {ERR_REJECTED, Absent} :
            promises' = [promises EXCEPT ![i].status = REJECTED, ![i].reason = reason]
  /\ UNCHANGED <<pc, entry, request, responses, consensusResult, aggregatedData, chain,
                 response, http, peer>>

Settle_NoEmptyCheck ==
  /\ pc = "collecting"
  /\ AllSettled(promises)
  /\ LET rs == collectFromSources(promises, request)
          successfulResponses == Successful(rs)
          result == calculateConsensus(successfulResponses, EffectiveMethod(request))
      IN  /\ responses' = rs
          /\ IF result.threw
             THEN /\ response' = FailureResponse(request, E_UNSUPPORTED)
                  /\ http' = HttpReply(entry, FailureResponse(request, E_UNSUPPORTED))
                  /\ pc' = "done"
                  /\ UNCHANGED <<consensusResult, aggregatedData, chain>>
             ELSE /\ consensusResult' = result
                  /\ aggregatedData' = AggregatedData(request, successfulResponses, result)
                  /\ chain' = [calls |-> chain.calls + 1, status |-> "pending"]
                  /\ pc' = "persisting"
                  /\ UNCHANGED <<response, http>>
  /\ UNCHANGED <<entry, request, promises, peer>>

\* collectData after await collectFromSources: filter, consensus, aggregated
\* data, then the call of chainService.submitOracleData
Settle ==
  /\ pc = "collecting"
  /\ AllSettled(promises)
  /\ LET rs == collectFromSources(promises, request)
          successfulResponses == Successful(rs)
          result == calculateConsensus(successfulResponses, EffectiveMethod(request))
      IN  /\ responses' = rs
          /\ IF Len(successfulResponses) = 0
             THEN /\ response' = FailureResponse(request, NO_DATA)
                  /\ http' = HttpReply(entry, FailureResponse(request, NO_DATA))
                  /\ pc' = "done"
                  /\ UNCHANGED <<consensusResult, aggregatedData, chain>>
             ELSE IF result.threw
             THEN /\ response' = FailureResponse(request, E_UNSUPPORTED)
                  /\ http' = HttpReply(entry, FailureResponse(request, E_UNSUPPORTED))
                  /\ pc' = "done"
                  /\ UNCHANGED <<consensusResult, aggregatedData, chain>>
             ELSE /\ consensusResult' = result
                  /\ aggregatedData' = AggregatedData(request, successfulResponses, result)
                  /\ chain' = [calls |-> chain.calls + 1, status |-> "pending"]
                  /\ pc' = "persisting"
                  /\ UNCHANGED <<response, http>>
  /\ UNCHANGED <<entry, request, promises, peer>>

Return_Resubmits(chainStatus) ==
  /\ pc = "persisting"
  /\ chain' = [calls |-> IF chainStatus = "rejected" THEN chain.calls + 1 ELSE chain.calls,
               status |-> chainStatus]
  /\ response' = SuccessResponse(aggregatedData, Successful(responses), consensusResult)
  /\ http' = HttpReply(entry,
                SuccessResponse(aggregatedData, Successful(responses), consensusResult))
  /\ pc' = "done"
  /\ UNCHANGED <<entry, request, promises, responses, consensusResult, aggregatedData,
                 peer>>

\* the rest of collectData once the chain submission has settled either way
Return(chainStatus) ==
  /\ pc = "persisting"
  /\ chain' = [chain EXCEPT !.status = chainStatus]
  /\ response' = SuccessResponse(aggregatedData, Successful(responses), consensusResult)
  /\ http' = HttpReply(entry,
                SuccessResponse(aggregatedData, Successful(responses), consensusResult))
  /\ pc' = "done"
  /\ UNCHANGED <<entry, request, promises, responses, consensusResult, aggregatedData,
                 peer>>

\* submitOracleData resolves with the transaction data
ChainResolve == Return("resolved")

ChainReject_Propagates ==
  /\ pc = "persisting"
  /\ chain' = [chain EXCEPT !.status = "rejected"]
  /\ response' = FailureResponse(request, E_CHAIN)
  /\ http' = HttpReply(entry, FailureResponse(request, E_CHAIN))
  /\ pc' = "done"
  /\ UNCHANGED <<entry, request, promises, responses, consensusResult, aggregatedData,
                 peer>>

\* submitOracleData throws a ChainError; collectData catches and logs it
ChainReject == Return("rejected")

\* the handler has replied; the service keeps nothing of the request
Reset ==
  /\ pc \in {"done", "rejected"}
  /\ pc' = "idle"
  /\ entry' = "none"
  /\ request' = NoRequest
  /\ promises' = <<>>
  /\ responses' = <<>>
  /\ consensusResult' = NoConsensus
  /\ aggregatedData' = NoAggregatedData
  /\ chain' = NoChain
  /\ response' = NoResponse
  /\ http' = NoHttp
  /\ UNCHANGED peer

Next ==
  \/ PostCollect
  \/ TestSource
  \/ AdapterFulfil
  \/ AdapterReject
  \/ Settle
  \/ ChainResolve
  \/ ChainReject
  \/ Reset

Spec == Init /\ [][Next]_vars

\* ------------------------------------------------ two requests in flight
\* collectData is an async method of one service object: between its awaits
\* (collectFromSources, calculateConsensus, submitOracleData) the event loop
\* may run the handler of another request.  The variables pc ... http are
\* the locals of the request whose continuation runs next and peer holds
\* those of the other request; SwitchRequest hands the turn over.  The
\* service object itself has no field that collectData assigns.
SwitchRequest_SharedFields ==
  /\ pc' = peer.pc
  /\ entry' = peer.entry
  /\ request' = peer.request
  /\ promises' = peer.promises
  /\ chain' = peer.chain
  /\ response' = peer.response
  /\ http' = peer.http
  /\ peer' = [pc |-> pc, entry |-> entry, request |-> request, promises |-> promises,
              responses |-> responses, consensusResult |-> consensusResult,
              aggregatedData |-> aggregatedData, chain |-> chain, response |-> response,
              http |-> http]
  /\ UNCHANGED <<responses, consensusResult, aggregatedData>>

SwitchRequest ==
  /\ pc' = peer.pc
  /\ entry' = peer.entry
  /\ request' = peer.request
  /\ promises' = peer.promises
  /\ responses' = peer.responses
  /\ consensusResult' = peer.consensusResult
  /\ aggregatedData' = peer.aggregatedData
  /\ chain' = peer.chain
  /\ response' = peer.response
  /\ http' = peer.http
  /\ peer' = [pc |-> pc, entry |-> entry, request |-> request, promises |-> promises,
              responses |-> responses, consensusResult |-> consensusResult,
              aggregatedData |-> aggregatedData, chain |-> chain, response |-> response,
              http |-> http]

ConcurrentNext ==
  \/ TestSource
  \/ AdapterFulfil
  \/ AdapterReject
  \/ Settle
  \/ ChainResolve
  \/ ChainReject
  \/ Reset
  \/ SwitchRequest

SpecConcurrent == Init /\ [][ConcurrentNext]_vars

\* ------------------------------------------- collectData called directly
\* collectData is a public method: besides the two routes, getHistoricalData
\* and the unit tests call it with a request no route has validated.  This
\* specification calls it with every request of the shape CollectDataRequest
\* (a dataType, an array of source names of any content, any parameters and
\* any consensus method or none).
CollectDataCall ==
  /\ pc = "idle"
  /\ \E req \in Bodies :
       /\ req.dataType # Absent
       /\ req.sources.kind = "array"
       /\ StartCollectData("direct", req)

DirectNext ==
  \/ CollectDataCall
  \/ AdapterFulfil
  \/ AdapterReject
  \/ Settle
  \/ ChainResolve
  \/ ChainReject
  \/ Reset

SpecDirect == Init /\ [][DirectNext]_vars

\* --------------------------------------- collectData over adapter doubles
\* The adapters are collaborators behind the OracleResponse contract.  This
\* second specification starts collectData at the await of
\* Promise.allSettled with every call already fulfilled by a double that
\* reports an arbitrary observation (any source, price and self-reported
\* confidence in [0,1] or none), so that the consensus methods run on
\* observation lists the built-in adapters never produce together.
MockSources == {"chainlink", "openweathermap"}

MockPoints(dataType) ==
  [source : MockSources,
   price : IF dataType = PRICE_FEED THEN PriceSet ELSE {0},
   confidence : {NoConfidence, Conf(0), Conf(60), Conf(100)}]

MockPromise(dataType, raw, i) ==
  [fn |-> "mock", arg |-> Absent, status |-> FULFILLED,
   value |-> OkResponse(raw.source,
               [source |-> raw.source, dataType |-> dataType,
                value |-> Value(i, IF dataType = PRICE_FEED
                                   THEN Price(Rat(raw.price, 1)) ELSE NoPrice),
                confidence |-> raw.confidence]),
   reason |-> Absent]

MockInit ==
  /\ pc = "collecting"
  /\ entry = "mock"
  /\ \E dataType \in {PRICE_FEED, WEATHER}, method \in ConsensusMethod \cup {Absent},
        k \in 1..MaxObs :
       \E raw \in [1..k -> MockPoints(dataType)] :
         /\ request = [dataType |-> dataType,
                       sources |-> [kind |-> "array",
                                    items |-> [i \in 1..k |->
                                       IF dataType = PRICE_FEED THEN "chainlink"
                                       ELSE "weather"]],
                       parameters |-> Params(Absent, Absent, Absent, Absent),
                       consensusMethod |-> method]
         /\ promises = [i \in 1..k |-> MockPromise(dataType, raw[i], i)]
  /\ responses = <<>>
  /\ consensusResult = NoConsensus
  /\ aggregatedData = NoAggregatedData
  /\ chain = NoChain
  /\ response = NoResponse
  /\ http = NoHttp
  /\ peer = IdleRequest

MockNext ==
  \/ Settle
  \/ ChainResolve
  \/ ChainReject

SpecMocked == MockInit /\ [][MockNext]_vars

\* ------------------------------------- collectData over price observations
\* A third specification for the arithmetic of the consensus methods: price
\* requests whose calls are fulfilled by doubles quoting three price levels
\* (4% and 20% apart, so that the 5% band of majorityVoteConsensus holds
\* all, some or none of a list), from a source with a listed reliability
\* and one without, with a self-reported confidence of 0 or 0.95.
MaxPrices == 3

PriceInit ==
  /\ pc = "collecting"
  /\ entry = "mock"
  /\ \E method \in {MAJORITY_VOTE, WEIGHTED_AVERAGE, MEDIAN}, k \in 1..MaxPrices :
       \E raw \in [1..k -> [source : MockSources, price : {100, 104, 120},
                              confidence : {Conf(0), Conf(95)}]] :
         /\ request = [dataType |-> PRICE_FEED,
                       sources |-> [kind |-> "array", items |-> [i \in 1..k |-> "chainlink"]],
                       parameters |-> Params("ETH/USD", Absent, Absent, Absent),
                       consensusMethod |-> method]
         /\ promises = [i \in 1..k |-> MockPromise(PRICE_FEED, raw[i], i)]
  /\ responses = <<>>
  /\ consensusResult = NoConsensus
  /\ aggregatedData = NoAggregatedData
  /\ chain = NoChain
  /\ response = NoResponse
  /\ http = NoHttp
  /\ peer = IdleRequest

SpecPrices == PriceInit /\ [][MockNext]_vars

\* ------------------------------------------ numbers as IEEE-754 doubles
\* A fourth specification evaluates the price arithmetic as the engine does,
\* in binary64 with round-to-nearest-even after every operation, so that a
\* product followed by a division is not the identity.  A finite double
\* x >= 0 is [m, e] with value m * 2^e, where m is 0 (and e = 0) or has
\* exactly 53 bits.  The 53- and 106-bit integers are little-endian
\* sequences of 15-bit limbs.  Negative numbers, subnormals, infinities and
\* NaN do not arise for the prices and weights considered.
Limb == 32768

\* An operator that uses an argument more than once first binds it to the
\* element of a singleton set, which holds the argument's value.
RECURSIVE BigOf(_)
BigOf(k0) ==
  CHOOSE r \in {IF k = 0 THEN <<>> ELSE <<k % Limb>> \o BigOf(k \div Limb) : k \in {k0}} : TRUE

RECURSIVE BigNorm(_)
BigNorm(a0) ==
  CHOOSE r \in {IF a = <<>> THEN <<>>
                ELSE IF a[Len(a)] = 0 THEN BigNorm(SubSeq(a, 1, Len(a) - 1)) ELSE a
                  : a \in {a0}} : TRUE

\* a + b + carry
RECURSIVE BigAdd(_, _, _)
BigAdd(a0, b0, carry0) ==
  CHOOSE r \in
    {IF a = <<>> /\ b = <<>> THEN (IF carry = 0 THEN <<>> ELSE <<carry>>)
     ELSE LET x == (IF a = <<>> THEN 0 ELSE Head(a)) + (IF b = <<>> THEN 0 ELSE Head(b)) + carry
          IN  <<x % Limb>> \o BigAdd(IF a = <<>> THEN <<>> ELSE Tail(a),
                                     IF b = <<>> THEN <<>> ELSE Tail(b), x \div Limb)
       : a \in {a0}, b \in {b0}, carry \in {carry0}} : TRUE

\* a - b - borrow for a >= b + borrow, with the limbs of a
RECURSIVE BigSub(_, _, _)
BigSub(a0, b0, borrow0) ==
  CHOOSE r \in
    {IF a = <<>> THEN <<>>
     ELSE LET x == Head(a) - (IF b = <<>> THEN 0 ELSE Head(b)) - borrow
          IN  <<(x + Limb) % Limb>>
                \o BigSub(Tail(a), IF b = <<>> THEN <<>> ELSE Tail(b), IF x < 0 THEN 1 ELSE 0)
       : a \in {a0}, b \in {b0}, borrow \in {borrow0}} : TRUE

\* -1, 0 or 1 as a < b, a = b or a > b
BigCmp(a0, b0) ==
  CHOOSE r \in
    {IF Len(a) < Len(b) THEN -1
     ELSE IF Len(a) > Len(b) THEN 1
     ELSE IF a = b THEN 0
     ELSE LET i == CHOOSE j \in 1..Len(a) :
                     a[j] # b[j] /\ \A l \in (j + 1)..Len(a) : a[l] = b[l]
          IN  IF a[i] < b[i] THEN -1 ELSE 1
       : a \in {a0}, b \in {b0}} : TRUE

\* a * k + carry for one limb k
RECURSIVE BigMulLimb(_, _, _)
BigMulLimb(a0, k0, carry0) ==
  CHOOSE r \in
    {IF a = <<>> THEN (IF carry = 0 THEN <<>> ELSE <<carry>>)
     ELSE LET x == Head(a) * k + carry
          IN  <<x % Limb>> \o BigMulLimb(Tail(a), k, x \div Limb)
       : a \in {a0}, k \in {k0}, carry \in {carry0}} : TRUE

RECURSIVE BigMul(_, _)
BigMul(a0, b0) ==
  CHOOSE r \in
    {IF a = <<>> \/ b = <<>> THEN <<>>
     ELSE BigNorm(BigAdd(BigMulLimb(a, Head(b), 0), <<0>> \o BigMul(a, Tail(b)), 0))
       : a \in {a0}, b \in {b0}} : TRUE

\* a * 2^n
BigShl(a0, n0) ==
  CHOOSE r \in
    {IF a = <<>> THEN <<>>
     ELSE [i \in 1..(n \div 15) |-> 0] \o BigMulLimb(a, 2 ^ (n % 15), 0)
       : a \in {a0}, n \in {n0}} : TRUE

\* the number of bits of a: 2^(BitLen - 1) <= a < 2^BitLen
BitLen(a0) ==
  CHOOSE r \in
    {IF a = <<>> THEN 0
     ELSE 15 * (Len(a) - 1)
            + (CHOOSE n \in 1..15 : 2 ^ (n - 1) <= a[Len(a)] /\ a[Len(a)] < 2 ^ n)
       : a \in {a0}} : TRUE

\* restoring division, one quotient bit per step, for the quotient bits
\* hi down to lo: q collects the bits as a number below 2^(hi - lo + 1)
RECURSIVE BigDivBits(_, _, _, _, _)
BigDivBits(rem0, d0, hi0, lo0, q0) ==
  CHOOSE r \in
    {IF hi < lo THEN [q |-> q, r |-> rem]
     ELSE IF BigCmp(BigShl(d, hi), rem) <= 0
          THEN BigDivBits(BigNorm(BigSub(rem, BigShl(d, hi), 0)), d, hi - 1, lo, 2 * q + 1)
          ELSE BigDivBits(rem, d, hi - 1, lo, 2 * q)
       : rem \in {rem0}, d \in {d0}, hi \in {hi0}, lo \in {lo0}, q \in {q0}} : TRUE

\* quotient and remainder of n by d > 0 when the quotient is below 2^55,
\* eleven quotient bits at a time
BigDivMod(n0, d0) ==
  CHOOSE r \in
    {LET c4 == BigDivBits(n, d, 54, 44, 0)
         c3 == BigDivBits(c4.r, d, 43, 33, 0)
         c2 == BigDivBits(c3.r, d, 32, 22, 0)
         c1 == BigDivBits(c2.r, d, 21, 11, 0)
         c0 == BigDivBits(c1.r, d, 10, 0, 0)
     IN  [q |-> BigAdd(BigAdd(BigAdd(BigShl(BigOf(c4.q), 44), BigShl(BigOf(c3.q), 33), 0),
                              BigAdd(BigShl(BigOf(c2.q), 22), BigShl(BigOf(c1.q), 11), 0), 0),
                       BigOf(c0.q), 0),
          r |-> c0.r]
       : n \in {n0}, d \in {d0}} : TRUE

\* a div 2^k for 0 < k < 15
BigShr(a0, k0) ==
  CHOOSE r \in
    {BigNorm([i \in 1..Len(a) |->
                (a[i] \div (2 ^ k))
                  + (IF i < Len(a) THEN (a[i + 1] % (2 ^ k)) * (Limb \div (2 ^ k)) ELSE 0)])
       : a \in {a0}, k \in {k0}} : TRUE

DZero == [m |-> <<>>, e |-> 0]

\* the double nearest to (q + r / d) * 2^e for a quotient q of 54 or 55
\* bits and a remainder r, ties to the even mantissa: q is cut to 53 bits
RoundQuotient(qr0, e0) ==
  CHOOSE x \in
    {LET k == BitLen(qr.q) - 53
         m0 == BigShr(qr.q, k)
         low == qr.q[1] % (2 ^ k)
         half == 2 ^ (k - 1)
         up == \/ low > half
               \/ low = half /\ (qr.r # <<>> \/ m0[1] % 2 = 1)
         m1 == IF up THEN BigAdd(m0, <<1>>, 0) ELSE m0
     IN  IF BitLen(m1) > 53
         THEN [m |-> BigShr(m1, 1), e |-> k + e + 1]
         ELSE [m |-> m1, e |-> k + e]
       : qr \in {qr0}, e \in {e0}} : TRUE

\* the double nearest to (n / d) * 2^e0 for big integers n, d > 0
RoundRatio(n0, d0, e0) ==
  CHOOSE x \in
    {LET s == BitLen(n) - BitLen(d) - 54
     IN  RoundQuotient(BigDivMod(IF s < 0 THEN BigShl(n, -s) ELSE n,
                                 IF s > 0 THEN BigShl(d, s) ELSE d),
                       s + e0)
       : n \in {n0}, d \in {d0}} : TRUE

\* a decimal literal n/d (0.95 is Decimal(95, 100)), read as the nearest double
Decimal(n, d) == IF n = 0 THEN DZero ELSE RoundRatio(BigOf(n), BigOf(d), 0)

\* x * y, x / y (y > 0) and x + y, each rounded once
DMul(x0, y0) ==
  CHOOSE r \in
    {IF x = DZero \/ y = DZero THEN DZero
     ELSE RoundRatio(BigMul(x.m, y.m), <<1>>, x.e + y.e)
       : x \in {x0}, y \in {y0}} : TRUE

DDiv(x0, y0) ==
  CHOOSE r \in
    {IF x = DZero THEN DZero ELSE RoundRatio(x.m, y.m, x.e - y.e)
       : x \in {x0}, y \in {y0}} : TRUE

DAdd(x0, y0) ==
  CHOOSE r \in
    {IF x = DZero THEN y
     ELSE IF y = DZero THEN x
     ELSE LET e == IF x.e < y.e THEN x.e ELSE y.e
          IN  RoundRatio(BigAdd(BigShl(x.m, x.e - e), BigShl(y.m, y.e - e), 0), <<1>>, e)
       : x \in {x0}, y \in {y0}} : TRUE

\* x < y
DLess(x0, y0) ==
  \E x \in {x0}, y \in {y0} :
    IF y = DZero THEN FALSE
    ELSE IF x = DZero THEN TRUE
    ELSE x.e < y.e \/ (x.e = y.e /\ BigCmp(x.m, y.m) < 0)

DMin(x0, y0) == CHOOSE r \in {IF DLess(y, x) THEN y ELSE x : x \in {x0}, y \in {y0}} : TRUE

RECURSIVE DSum(_)
DSum(s0) ==
  CHOOSE r \in
    {IF s = <<>> THEN DZero ELSE DAdd(DSum(SubSeq(s, 1, Len(s) - 1)), s[Len(s)])
       : s \in {s0}} : TRUE

\* |x - p| <= k * 2^-52 * p : x lies within k units of relative rounding
\* error of p > 0
RelativeErrorWithin(x0, p0, k) ==
  \E x \in {x0}, p \in {p0} :
    LET e == IF x.e < p.e THEN x.e ELSE p.e
        bx == BigShl(x.m, x.e - e)
        bp == BigShl(p.m, p.e - e)
        diff == BigNorm(IF BigCmp(bx, bp) < 0 THEN BigSub(bp, bx, 0) ELSE BigSub(bx, bp, 0))
    IN  BigCmp(BigShl(diff, 52), BigMulLimb(bp, k, 0)) <= 0

\* getSourceReliability with the table's literals read as doubles
getSourceReliability64(source) ==
  CASE source = "chainlink" -> Decimal(95, 100)
    [] source = "weather" -> Decimal(80, 100)
    [] source = "nasa" -> Decimal(90, 100)
    [] source = "aggregated" -> Decimal(85, 100)
    [] OTHER -> Decimal(5, 10)

Weights64_ReliabilityOnly(dataPoints) ==
  [i \in 1..Len(dataPoints) |-> getSourceReliability64(dataPoints[i].source)]

Weights64(dataPoints) ==
  [i \in 1..Len(dataPoints) |->
     DMul(getSourceReliability64(dataPoints[i].source),
          IF dataPoints[i].confidence.present /\ dataPoints[i].confidence.v # DZero
          THEN dataPoints[i].confidence.v
          ELSE Decimal(5, 10))]

weightedAverageConsensus64(dataPoints) ==
  IF Len(dataPoints) = 0 THEN [value |-> NoValue, confidence |-> DZero]
  ELSE CHOOSE result \in
    {CHOOSE r \in
       {LET weightedPrice ==
              DDiv(DSum([i \in 1..Len(dataPoints) |->
                           DMul(dataPoints[i].value.price.v, weights[i])]),
                   totalWeight)
            bestIndex == CHOOSE i \in 1..Len(weights) :
                           /\ \A j \in 1..(i - 1) : DLess(weights[j], weights[i])
                           /\ \A j \in (i + 1)..Len(weights) : ~DLess(weights[i], weights[j])
        IN  IF totalWeight = DZero
            THEN [value |-> dataPoints[1].value, confidence |-> DZero]
            ELSE IF dataPoints[1].dataType = PRICE_FEED
            THEN [value |-> WithPrice(dataPoints[1].value, weightedPrice),
                  confidence |-> DMin(DDiv(totalWeight, Decimal(Len(dataPoints), 1)),
                                      Decimal(1, 1))]
            ELSE [value |-> dataPoints[bestIndex].value,
                  confidence |-> weights[bestIndex]]
          : totalWeight \in {DSum(weights)}} : TRUE
       : weights \in {Weights64(dataPoints)}} : TRUE

SortPrices64_Unsorted(s0) == s0

\* prices.sort((a, b) => a - b)
RECURSIVE SortPrices64(_)
SortPrices64(s0) ==
  CHOOSE r \in
    {IF s = <<>> THEN <<>>
     ELSE CHOOSE sorted \in
            {SelectSeq(rest, LAMBDA y : DLess(y, Head(s)))
               \o <<Head(s)>>
               \o SelectSeq(rest, LAMBDA y : ~DLess(y, Head(s)))
               : rest \in {SortPrices64(Tail(s))}} : TRUE
       : s \in {s0}} : TRUE

medianConsensus64_NoHalving(dataPoints) ==
  IF Len(dataPoints) = 0 THEN [value |-> NoValue, confidence |-> DZero]
  ELSE IF dataPoints[1].dataType = PRICE_FEED
  THEN LET prices == SortPrices64([i \in 1..Len(dataPoints) |-> dataPoints[i].value.price.v])
           n == Len(prices)
           median == IF n % 2 = 0
                     THEN DAdd(prices[n \div 2], prices[(n \div 2) + 1])
                     ELSE prices[(n \div 2) + 1]
       IN  [value |-> WithPrice(dataPoints[1].value, median),
            confidence |-> Decimal(8, 10)]
  ELSE [value |-> dataPoints[(Len(dataPoints) \div 2) + 1].value,
        confidence |-> Decimal(6, 10)]

medianConsensus64(dataPoints) ==
  IF Len(dataPoints) = 0 THEN [value |-> NoValue, confidence |-> DZero]
  ELSE IF dataPoints[1].dataType = PRICE_FEED
  THEN LET prices == SortPrices64([i \in 1..Len(dataPoints) |-> dataPoints[i].value.price.v])
           n == Len(prices)
           median == IF n % 2 = 0
                     THEN DDiv(DAdd(prices[n \div 2], prices[(n \div 2) + 1]), Decimal(2, 1))
                     ELSE prices[(n \div 2) + 1]
       IN  [value |-> WithPrice(dataPoints[1].value, median),
            confidence |-> Decimal(8, 10)]
  ELSE [value |-> dataPoints[(Len(dataPoints) \div 2) + 1].value,
        confidence |-> Decimal(6, 10)]

\* majorityVoteConsensus in doubles: Math.abs(price - avgPrice) is the
\* rounded difference, compared with the rounded avgPrice * 0.05
majorityVoteConsensus64(dataPoints) ==
  IF Len(dataPoints) = 0 THEN [value |-> NoValue, confidence |-> DZero]
  ELSE IF dataPoints[1].dataType = PRICE_FEED
  THEN CHOOSE result \in
    {CHOOSE r \in
       {LET Within(price) ==
              \E e \in {IF price.e < avgPrice.e THEN price.e ELSE avgPrice.e} :
                \E bp \in {BigShl(price.m, price.e - e)}, ba \in {BigShl(avgPrice.m, avgPrice.e - e)} :
                  \/ BigCmp(bp, ba) = 0
                  \/ ~DLess(tolerance,
                            RoundRatio(BigNorm(IF BigCmp(bp, ba) < 0 THEN BigSub(ba, bp, 0)
                                               ELSE BigSub(bp, ba, 0)), <<1>>, e))
        IN  [value |-> WithPrice(dataPoints[1].value, avgPrice),
             confidence |-> Decimal(Cardinality({i \in 1..Len(prices) : Within(prices[i])}),
                                    Len(prices))]
          : avgPrice \in {DDiv(DSum(prices), Decimal(Len(prices), 1))},
            tolerance \in {DMul(DDiv(DSum(prices), Decimal(Len(prices), 1)), Decimal(5, 100))}}
         : TRUE
       : prices \in {[i \in 1..Len(dataPoints) |-> dataPoints[i].value.price.v]}} : TRUE
  ELSE [value |-> dataPoints[1].value, confidence |-> Decimal(1, Len(dataPoints))]

\* the observations: a source with a listed reliability or one without,
\* quoting 0.21, 2500.50 or 100 with the confidence 0.95
MaxQuotes == 2

QuotePromise(raw, i) ==
  [fn |-> "mock", arg |-> Absent, status |-> FULFILLED,
   value |-> OkResponse(raw.source,
               [source |-> raw.source, dataType |-> PRICE_FEED,
                value |-> Value(i, Price(raw.price)),
                confidence |-> [present |-> TRUE, v |-> Decimal(95, 100)]]),
   reason |-> Absent]

QuoteInit ==
  /\ pc = "collecting"
  /\ entry = "mock"
  /\ \E method \in {WEIGHTED_AVERAGE, MEDIAN}, k \in 1..MaxQuotes :
       \E raw \in [1..k -> [source : MockSources,
                              price : {Decimal(21, 100), Decimal(250050, 100),
                                       Decimal(100, 1)}]] :
         /\ request = [dataType |-> PRICE_FEED,
                       sources |-> [kind |-> "array", items |-> [i \in 1..k |-> "chainlink"]],
                       parameters |-> Params("ETH/USD", Absent, Absent, Absent),
                       consensusMethod |-> method]
         /\ promises = [i \in 1..k |-> QuotePromise(raw[i], i)]
  /\ responses = <<>>
  /\ consensusResult = NoConsensus
  /\ aggregatedData = NoAggregatedData
  /\ chain = NoChain
  /\ response = NoResponse
  /\ http = NoHttp
  /\ peer = IdleRequest

\* calculateConsensus for majority, weighted_average or median, in doubles
ApplyConsensus64 ==
  /\ pc = "collecting"
  /\ AllSettled(promises)
  /\ \E rs \in {collectFromSources(promises, request)} :
       \E result \in {IF EffectiveMethod(request) = MEDIAN
                       THEN medianConsensus64(DataOf(Successful(rs)))
                       ELSE IF EffectiveMethod(request) = MAJORITY_VOTE
                       THEN majorityVoteConsensus64(DataOf(Successful(rs)))
                       ELSE weightedAverageConsensus64(DataOf(Successful(rs)))} :
         /\ responses' = rs
         /\ consensusResult' =
              [threw |-> FALSE, value |-> result.value, confidence |-> result.confidence,
               participatingSources |-> SourcesOf(Successful(rs)),
               method |-> EffectiveMethod(request), outliers |-> <<>>]
  /\ pc' = "done"
  /\ UNCHANGED <<entry, request, promises, aggregatedData, chain, response, http, peer>>

SpecDoubles == QuoteInit /\ [][ApplyConsensus64]_vars

\* the order of the observations is exercised in doubles on lists of up to
\* MaxShuffled chainlink observations quoting 0.21, 100 or 2500.50 with the
\* confidence 0.95, under each of the three consensus methods; the lists are
\* taken in ascending order of price, every other order of a list being one
\* of its permutations
MaxShuffled == 3

ShuffleInit ==
  /\ pc = "collecting"
  /\ entry = "mock"
  /\ \E method \in {MAJORITY_VOTE, WEIGHTED_AVERAGE, MEDIAN}, k \in 1..MaxShuffled :
       \E price \in [1..k -> {Decimal(21, 100), Decimal(100, 1), Decimal(250050, 100)}] :
         /\ \A i \in 1..(k - 1) : ~DLess(price[i + 1], price[i])
         /\ request = [dataType |-> PRICE_FEED,
                       sources |-> [kind |-> "array", items |-> [i \in 1..k |-> "chainlink"]],
                       parameters |-> Params("ETH/USD", Absent, Absent, Absent),
                       consensusMethod |-> method]
         /\ promises = [i \in 1..k |->
                          QuotePromise([source |-> "chainlink", price |-> price[i]], i)]
  /\ responses = <<>>
  /\ consensusResult = NoConsensus
  /\ aggregatedData = NoAggregatedData
  /\ chain = NoChain
  /\ response = NoResponse
  /\ http = NoHttp
  /\ peer = IdleRequest

SpecShuffled == ShuffleInit /\ [][ApplyConsensus64]_vars

\* ---------------------------------------------------------------- claims
\* the calls that were fulfilled with success = true, in dispatch order
OkCalls == SelectSeq(promises, LAMBDA p : p.status = FULFILLED /\ p.value.success)

\* the calls that rejected or were fulfilled with success = false
FailedCall(p) == p.status = REJECTED \/ (p.status = FULFILLED /\ ~p.value.success)

\* the requested source name whose switch case issues adapter method fn
RequestedSourceOf(fn) ==
  CASE fn = GET_PRICE_FEED -> "chainlink"
    [] fn = GET_CURRENT_WEATHER -> "weather"
    [] OTHER -> "nasa"

InSeq(x, s) == \E i \in 1..Len(s) : s[i] = x

\* C1: when every dispatched adapter call failed (success = false or
\* rejected), collectData returns success = false without aggregatedData and
\* with consensusAchieved = false; no aggregated result is built and nothing
\* is submitted to the chain.
C1_AllFailedIsFailure ==
  (pc \in {"persisting", "done"} /\ \A i \in 1..Len(promises) : FailedCall(promises[i]))
    => /\ pc = "done"
       /\ ~response.success
       /\ ~response.hasAggregatedData
       /\ response.aggregatedData = NoAggregatedData
       /\ ~response.consensusAchieved
       /\ aggregatedData = NoAggregatedData
       /\ chain.calls = 0

C1_Witness ==
  /\ pc = "done"
  /\ Len(promises) >= 2
  /\ \E i \in 1..Len(promises) : promises[i].status = REJECTED
  /\ \E i \in 1..Len(promises) : promises[i].status = FULFILLED /\ ~promises[i].value.success
  /\ \A i \in 1..Len(promises) : FailedCall(promises[i])
  /\ ~response.success

\* C2: when the chain submission throws after consensus was computed,
\* collectData returns success = true with the aggregatedData built before
\* the submission, its sources and its confidence, and the route answers 200
\* as for a submission that succeeded.
C2_ChainFailureKeepsSuccess ==
  (pc = "done" /\ chain.status = "rejected")
    => /\ response.success
       /\ response.hasAggregatedData
       /\ response.aggregatedData = aggregatedData
       /\ aggregatedData # NoAggregatedData
       /\ response.aggregatedData.confidence = consensusResult.confidence
       /\ response.aggregatedData.sources = SourcesOf(Successful(responses))
       /\ response.sourcesUsed = SourcesOf(Successful(responses))
       /\ http.status = 200

C2_Witness ==
  /\ pc = "done"
  /\ chain.status = "rejected"
  /\ chain.calls = 1
  /\ response.success
  /\ Len(response.aggregatedData.dataPoints) >= 1

\* C3: consensus is computed only when no dispatched call is pending, and
\* the observation of every call that succeeded is among the dataPoints of
\* the aggregated data, whatever the other calls did.
C3_WaitsForAllKeepsSuccesses ==
  /\ (pc \in {"persisting", "done"}) => \A i \in 1..Len(promises) : promises[i].status # PENDING
  /\ (consensusResult # NoConsensus) => \A i \in 1..Len(promises) : promises[i].status # PENDING
  /\ (pc \in {"persisting", "done"} /\ Len(OkCalls) > 0)
       => \A i \in 1..Len(promises) :
            (promises[i].status = FULFILLED /\ promises[i].value.success)
              => InSeq(promises[i].value.data, aggregatedData.dataPoints)
  /\ (pc = "done" /\ Len(OkCalls) > 0 /\ ~consensusResult.threw /\ response.success)
       => \A i \in 1..Len(promises) :
            (promises[i].status = FULFILLED /\ promises[i].value.success)
              => InSeq(promises[i].value.data, response.aggregatedData.dataPoints)

C3_Witness ==
  /\ pc = "done"
  /\ response.success
  /\ \E i \in 1..Len(promises) : promises[i].status = REJECTED
  /\ \E i \in 1..Len(promises) :
       /\ promises[i].status = FULFILLED
       /\ promises[i].value.success
       /\ InSeq(promises[i].value.data, response.aggregatedData.dataPoints)

C5_NoApplicableSourceDistinct ==
  (pc = "done" /\ Len(promises) = 0) => response.error # NO_DATA

\* C6: on success, aggregatedData.sources, aggregatedData.dataPoints and
\* sourcesUsed list exactly the calls that succeeded, in dispatch order:
\* equal lengths, sources[i] the source of dataPoints[i], no entry for a
\* failed call and no successful call missing.
C6_SourcesAreSuccessfulCalls ==
  (pc = "done" /\ response.success)
    => /\ Len(response.aggregatedData.sources) = Len(OkCalls)
       /\ Len(response.aggregatedData.dataPoints) = Len(OkCalls)
       /\ Len(response.sourcesUsed) = Len(OkCalls)
       /\ \A i \in 1..Len(OkCalls) :
            /\ response.aggregatedData.dataPoints[i] = OkCalls[i].value.data
            /\ response.aggregatedData.dataPoints[i] # NoData
            /\ response.aggregatedData.sources[i] = OkCalls[i].value.source
            /\ response.aggregatedData.sources[i] = response.aggregatedData.dataPoints[i].source
            /\ response.sourcesUsed[i] = response.aggregatedData.sources[i]

C6_Witness ==
  /\ pc = "done"
  /\ response.success
  /\ Len(OkCalls) = 1
  /\ Len(promises) = 2
  /\ Len(response.aggregatedData.sources) = 1

\* C7: the confidence of every successful collectData result lies in [0,1],
\* for every consensus method and data category, when each observation
\* reports a confidence in [0,1] or none.
C7_ConfidenceInUnitInterval ==
  /\ (pc \in {"persisting", "done"} /\ aggregatedData # NoAggregatedData)
       => /\ RLeq(RZero, aggregatedData.confidence)
          /\ RLeq(aggregatedData.confidence, ROne)
  /\ (pc = "done" /\ response.success)
       => /\ RLeq(RZero, response.aggregatedData.confidence)
          /\ RLeq(response.aggregatedData.confidence, ROne)

C7_Witness ==
  /\ pc = "done"
  /\ response.success
  /\ response.aggregatedData.consensusMethod = WEIGHTED_AVERAGE
  /\ response.aggregatedData.dataType = PRICE_FEED
  /\ Len(response.aggregatedData.dataPoints) >= 2
  /\ \A i \in 1..Len(response.aggregatedData.dataPoints) :
       response.aggregatedData.dataPoints[i].confidence = Conf(100)
  /\ RLess(Rat(1, 2), response.aggregatedData.confidence)
  /\ RLess(response.aggregatedData.confidence, ROne)

\* C8: on success, sourcesUsed contains the requested source name of every
\* requested source whose adapter call succeeded.
C8_SourcesUsedNamesRequested ==
  (pc = "done" /\ response.success)
    => \A i \in 1..Len(promises) :
         (promises[i].status = FULFILLED /\ promises[i].value.success)
           => InSeq(RequestedSourceOf(promises[i].fn), response.sourcesUsed)

\* C9: a weather request for source weather that supplies coordinates but no
\* city is accepted and the weather adapter is called for it.
C9_WeatherByCoordinatesAccepted ==
  (pc # "idle" /\ entry = "collect" /\ request.dataType = WEATHER
     /\ request.sources.kind = "array" /\ request.sources.items = <<"weather">>
     /\ request.consensusMethod \in ConsensusMethod \cup {Absent}
     /\ request.parameters.coordinates # Absent /\ request.parameters.city = Absent)
    => /\ pc # "rejected"
       /\ \E i \in 1..Len(promises) : promises[i].fn = GET_CURRENT_WEATHER

\* the error texts a CollectDataResponse carries

\* C10: when calls were attempted and none succeeded, the failure names the
\* attempted sources and carries the error of each attempted call.
C10_FailureCarriesSourceErrors ==
  (pc = "done" /\ ~response.success /\ Len(promises) > 0 /\ Len(OkCalls) = 0)
    => /\ \A i \in 1..Len(promises) :
            InSeq(RequestedSourceOf(promises[i].fn), response.sourcesUsed)
       /\ \A i \in 1..Len(responses) : responses[i].error = response.error

\* C11: once consensus has been computed, collectData can return its
\* successful result without the chain submission having completed: while
\* the submission is pending, a step that returns the result and leaves the
\* submission pending is possible.
C11_ReturnsWhileSubmissionPending ==
  (pc = "persisting" /\ chain.status = "pending")
    => ENABLED (Next /\ pc' = "done" /\ response'.success /\ chain'.status = "pending")

\* the observations of the calls that succeeded, in dispatch order
OkData == [i \in 1..Len(OkCalls) |-> OkCalls[i].value.data]

\* C12: a request without consensusMethod gets the aggregated value and
\* confidence of weightedAverageConsensus over its successful observations,
\* the same aggregatedData and response as the request with consensusMethod
\* weighted_average, and consensusMethod is reported as weighted_average.
C12_DefaultIsWeightedAverage ==
  (pc \in {"persisting", "done"} /\ request.consensusMethod = Absent /\ Len(OkCalls) > 0)
    => LET explicit == [request EXCEPT !.consensusMethod = WEIGHTED_AVERAGE]
           succ == Successful(collectFromSources(promises, explicit))
           result == calculateConsensus(succ, explicit.consensusMethod)
       IN  /\ aggregatedData.consensusMethod = WEIGHTED_AVERAGE
           /\ consensusResult.method = WEIGHTED_AVERAGE
           /\ aggregatedData.aggregatedValue = weightedAverageConsensus(OkData).value
           /\ aggregatedData.confidence = weightedAverageConsensus(OkData).confidence
           /\ aggregatedData = AggregatedData(explicit, succ, result)
           /\ (pc = "done")
                => response = SuccessResponse(AggregatedData(explicit, succ, result),
                                              succ, result)

C12_Witness ==
  /\ pc = "done"
  /\ request.consensusMethod = Absent
  /\ response.success
  /\ response.aggregatedData.consensusMethod = WEIGHTED_AVERAGE
  /\ response.aggregatedData.dataType = PRICE_FEED
  /\ Len(OkData) = 2
  /\ OkData[1].value.price # OkData[2].value.price
  /\ OkData[1].source # OkData[2].source
  /\ response.aggregatedData.aggregatedValue.price
       # medianConsensus(OkData).value.price

\* C13: with consensusMethod ai_consensus the consensus result has exactly
\* the value and the confidence that weightedAverageConsensus gives for the
\* same observations, while the result and the aggregated data report the
\* method as ai_consensus, a value distinct from weighted_average.
C13_AIConsensusIsWeightedAverage ==
  /\ AI_CONSENSUS # WEIGHTED_AVERAGE
  /\ (pc \in {"persisting", "done"} /\ request.consensusMethod = AI_CONSENSUS
        /\ Len(OkCalls) > 0)
       => /\ consensusResult.value = weightedAverageConsensus(OkData).value
          /\ consensusResult.confidence = weightedAverageConsensus(OkData).confidence
          /\ consensusResult.value
               = calculateConsensus(Successful(responses), WEIGHTED_AVERAGE).value
          /\ consensusResult.confidence
               = calculateConsensus(Successful(responses), WEIGHTED_AVERAGE).confidence
          /\ consensusResult.method = AI_CONSENSUS
          /\ aggregatedData.consensusMethod = AI_CONSENSUS
          /\ aggregatedData.aggregatedValue = weightedAverageConsensus(OkData).value
          /\ aggregatedData.confidence = weightedAverageConsensus(OkData).confidence

C13_Witness ==
  /\ pc = "done"
  /\ request.consensusMethod = AI_CONSENSUS
  /\ response.success
  /\ consensusResult.method = AI_CONSENSUS
  /\ response.aggregatedData.consensusMethod = AI_CONSENSUS
  /\ response.aggregatedData.dataType = PRICE_FEED
  /\ Len(OkData) = 2
  /\ OkData[1].value.price # OkData[2].value.price
  /\ OkData[1].confidence # OkData[2].confidence
  /\ response.aggregatedData.aggregatedValue.price
       # majorityVoteConsensus(OkData).value.price

\* a chainlink price observation quoting the whole number p
Quote(p, i) ==
  MockPromise(PRICE_FEED, [source |-> "chainlink", price |-> p, confidence |-> Conf(95)],
              i).value.data

\* the whole-number prices of the successful observations and their sum
OkPrice(i) == OkData[i].value.price.v.n

RECURSIVE SumTo(_)
SumTo(k) == IF k = 0 THEN 0 ELSE SumTo(k - 1) + OkPrice(k)

\* observation i lies within 5% of the mean S/n:  |p - S/n| <= S/(20 n)
InBand(i) == 20 * Abs(Len(OkData) * OkPrice(i) - SumTo(Len(OkData))) <= SumTo(Len(OkData))

OkWeight(i) == DMul(getSourceReliability64(OkData[i].source), OkData[i].confidence.v)

\* C15 (as stated): weightedAverageConsensus over a single price
\* observation of weight w > 0 returns exactly that observation's price and
\* the confidence min(w, 1.0), which is 0.9025 for a chainlink observation
\* of confidence 0.95.
C15_SingleObservationExact ==
  (pc = "done" /\ request.consensusMethod = WEIGHTED_AVERAGE /\ Len(OkData) = 1
     /\ DLess(DZero, OkWeight(1)))
    => /\ consensusResult.value.price = OkData[1].value.price
       /\ consensusResult.confidence = DMin(OkWeight(1), Decimal(1, 1))
       /\ (OkData[1].source = "chainlink" /\ OkData[1].confidence.v = Decimal(95, 100))
            => consensusResult.confidence = Decimal(9025, 10000)

\* C15 (amended): weightedAverageConsensus over a single price observation
\* of weight w > 0 returns (price x w) / w as rounded by the two double
\* operations, a price within relative error 2^-52 of the observation's,
\* and exactly the confidence min(w, 1.0), which is 0.9025 for a chainlink
\* observation of confidence 0.95.
C15_SingleObservationRounded ==
  (pc = "done" /\ request.consensusMethod = WEIGHTED_AVERAGE /\ Len(OkData) = 1
     /\ DLess(DZero, OkWeight(1)))
    => /\ consensusResult.value.price.present
       /\ consensusResult.value.price.v
            = DDiv(DMul(OkData[1].value.price.v, OkWeight(1)), OkWeight(1))
       /\ RelativeErrorWithin(consensusResult.value.price.v, OkData[1].value.price.v, 1)
       /\ consensusResult.confidence = DMin(OkWeight(1), Decimal(1, 1))
       /\ (OkData[1].source = "chainlink" /\ OkData[1].confidence.v = Decimal(95, 100))
            => consensusResult.confidence = Decimal(9025, 10000)

C15_Witness ==
  /\ pc = "done"
  /\ request.consensusMethod = WEIGHTED_AVERAGE
  /\ Len(OkData) = 1
  /\ OkData[1].source = "chainlink"
  /\ OkData[1].value.price.v = Decimal(21, 100)
  /\ consensusResult.value.price.v # Decimal(21, 100)
  /\ DLess(Decimal(21, 100), consensusResult.value.price.v)
  /\ consensusResult.confidence = Decimal(9025, 10000)

\* C16 (as stated): over a non-empty list of price observations that all
\* carry the same price p, weightedAverageConsensus and medianConsensus
\* both return the price p with a confidence greater than 0.
C16_IdenticalPricesExact ==
  (pc = "done" /\ Len(OkData) > 0
     /\ \A i \in 1..Len(OkData) : OkData[i].value.price = OkData[1].value.price)
    => /\ consensusResult.value.price = OkData[1].value.price
       /\ DLess(DZero, consensusResult.confidence)

\* C16 (amended): over a non-empty list of n price observations that all
\* carry the same price p, medianConsensus returns exactly p and
\* weightedAverageConsensus returns p up to the rounding of its double
\* operations, within relative error (n + 1) x 2^-52; the confidence is
\* greater than 0 in both.
C16_IdenticalPricesRounded ==
  (pc = "done" /\ Len(OkData) > 0
     /\ \A i \in 1..Len(OkData) : OkData[i].value.price = OkData[1].value.price)
    => /\ consensusResult.value.price.present
       /\ (request.consensusMethod = MEDIAN)
            => consensusResult.value.price = OkData[1].value.price
       /\ (request.consensusMethod = WEIGHTED_AVERAGE)
            => RelativeErrorWithin(consensusResult.value.price.v, OkData[1].value.price.v,
                                   Len(OkData) + 1)
       /\ DLess(DZero, consensusResult.confidence)

C16_Witness ==
  /\ pc = "done"
  /\ request.consensusMethod = WEIGHTED_AVERAGE
  /\ Len(OkData) = 2
  /\ OkData[1].source # OkData[2].source
  /\ OkData[1].value.price.v = Decimal(250050, 100)
  /\ OkData[2].value.price.v = Decimal(250050, 100)
  /\ consensusResult.value.price.v # Decimal(250050, 100)
  /\ DLess(DZero, consensusResult.confidence)

\* the k-th smallest of the observed prices: fewer than k prices lie below
\* it and at least k prices do not exceed it
KthPrice(k) ==
  CHOOSE p \in {OkPrice(i) : i \in 1..Len(OkData)} :
    /\ Cardinality({i \in 1..Len(OkData) : OkPrice(i) < p}) < k
    /\ Cardinality({i \in 1..Len(OkData) : OkPrice(i) <= p}) >= k

\* C17: for a non-empty list of price observations medianConsensus returns
\* the middle element of the numerically sorted prices when their number is
\* odd and the average of the two middle elements when it is even (3 for
\* the prices 1, 2, 4, 5), with confidence 0.8 for every number of
\* observations.
C17_MedianOfSortedPrices ==
  /\ (pc \in {"persisting", "done"} /\ request.consensusMethod = MEDIAN /\ Len(OkData) > 0)
       => LET n == Len(OkData)
          IN  /\ consensusResult.confidence = Pct(80)
              /\ aggregatedData.confidence = Pct(80)
              /\ (n % 2 = 1)
                   => consensusResult.value.price = Price(Rat(KthPrice((n + 1) \div 2), 1))
              /\ (n % 2 = 0)
                   => consensusResult.value.price
                        = Price(Rat(KthPrice(n \div 2) + KthPrice((n \div 2) + 1), 2))
              /\ aggregatedData.aggregatedValue = consensusResult.value
  /\ medianConsensus(<<Quote(5, 1), Quote(1, 2), Quote(4, 3), Quote(2, 4)>>).value.price
       = Price(Rat(3, 1))
  /\ medianConsensus(<<Quote(5, 1), Quote(1, 2), Quote(4, 3), Quote(2, 4)>>).confidence
       = Pct(80)

C17_Witness ==
  /\ pc = "done"
  /\ request.consensusMethod = MEDIAN
  /\ response.success
  /\ Len(OkData) = 3
  /\ OkPrice(1) = 104
  /\ OkPrice(2) = 120
  /\ OkPrice(3) = 100
  /\ response.aggregatedData.aggregatedValue.price = Price(Rat(104, 1))
  /\ response.aggregatedData.confidence = Pct(80)

\* C18: when every observation reports the confidence 0, so that every
\* weight reliability x confidence is 0, weightedAverageConsensus returns
\* confidence 0 and the first observation's value.
C18_ZeroConfidenceFallback ==
  (pc \in {"persisting", "done"} /\ request.consensusMethod = WEIGHTED_AVERAGE
     /\ Len(OkData) > 0 /\ \A i \in 1..Len(OkData) : OkData[i].confidence = Conf(0))
    => /\ consensusResult.confidence = RZero
       /\ consensusResult.value = OkData[1].value

\* the list s rearranged by the permutation perm of 1..Len(s)
Permuted(s, perm) == [i \in 1..Len(s) |-> s[perm[i]]]

OwnResponse(req, ps) ==
  LET successfulResponses == Successful(collectFromSources(ps, req))
      result == calculateConsensus(successfulResponses, EffectiveMethod(req))
  IN  IF Len(successfulResponses) = 0 THEN FailureResponse(req, NO_DATA)
      ELSE IF result.threw THEN FailureResponse(req, E_UNSUPPORTED)
      ELSE SuccessResponse(AggregatedData(req, successfulResponses, result),
                           successfulResponses, result)

\* C20: with two requests in flight under every interleaving of their
\* steps, the response to each request is the one determined by that
\* request and the outcomes of its own adapter calls, and a request that
\* has not been answered has no response.
C20_RequestsDoNotInterfere ==
  /\ (pc = "done") => response = OwnResponse(request, promises)
  /\ (peer.pc = "done") => peer.response = OwnResponse(peer.request, peer.promises)
  /\ (pc = "persisting")
       => SuccessResponse(aggregatedData, Successful(responses), consensusResult)
            = OwnResponse(request, promises)
  /\ (peer.pc = "persisting")
       => SuccessResponse(peer.aggregatedData, Successful(peer.responses),
                          peer.consensusResult)
            = OwnResponse(peer.request, peer.promises)
  /\ (pc \notin {"done"}) => response = NoResponse
  /\ (peer.pc \notin {"done"}) => peer.response = NoResponse

C20_Witness ==
  /\ pc = "done"
  /\ response.success
  /\ peer.pc = "persisting"
  /\ request.dataType = PRICE_FEED
  /\ peer.request.dataType = SPACE
  /\ Len(peer.promises) = 1
  /\ response.aggregatedData.dataPoints # peer.aggregatedData.dataPoints

\* C21: the failure record collectFromSources builds for a rejected call
\* names the requested source the call was issued for, whichever requested
\* sources the router skipped.
C21_RejectionTaggedWithItsSource ==
  (pc \in {"persisting", "done"})
    => \A i \in 1..Len(promises) :
         (promises[i].status = REJECTED)
           => /\ ~responses[i].success
              /\ responses[i].source = RequestedSourceOf(promises[i].fn)

\* C22: a requested source that does not support the requested category, or
\* whose name is unknown, is skipped without failing the request: when the
\* call of another requested source succeeds (and the consensus method is a
\* supported one), collectData succeeds, no entry of sources or dataPoints
\* bears the skipped name, and every entry comes from a call that was issued
\* and succeeded.
C22_SkippedSourceDoesNotFail ==
  (pc = "done" /\ Len(OkCalls) > 0 /\ EffectiveMethod(request) \in ConsensusMethod)
    => LET supports == [name \in {"chainlink", "weather", "nasa"} |->
                          CASE name = "chainlink" -> PRICE_FEED
                            [] name = "weather" -> WEATHER
                            [] OTHER -> SPACE]
           skipped == {name \in {request.sources.items[i] : i \in 1..Len(request.sources.items)} :
                         name \notin DOMAIN supports \/ supports[name] # request.dataType}
       IN  /\ response.success
           /\ Len(response.aggregatedData.sources) = Len(OkCalls)
           /\ Len(response.aggregatedData.dataPoints) = Len(OkCalls)
           /\ \A j \in 1..Len(OkCalls) :
                /\ response.aggregatedData.sources[j] \notin skipped
                /\ response.aggregatedData.dataPoints[j].source \notin skipped
                /\ response.aggregatedData.sources[j] = OkCalls[j].value.source
                /\ response.aggregatedData.dataPoints[j] = OkCalls[j].value.data
                /\ request.dataType = supports[RequestedSourceOf(OkCalls[j].fn)]

C22_Witness ==
  /\ pc = "done"
  /\ entry = "direct"
  /\ request.sources.items = <<"coinbase", "chainlink">>
  /\ request.dataType = PRICE_FEED
  /\ Len(promises) = 1
  /\ response.success
  /\ response.aggregatedData.sources = <<"chainlink">>

\* C23: the router issues exactly one adapter call per distinct requested
\* source that supports the category: the number of calls is the number of
\* distinct names that contribute a call and never exceeds the number of
\* distinct names, also for a list that repeats a name.
C23_OneCallPerDistinctSource ==
  (pc \in {"collecting", "persisting", "done"})
    => LET names == {request.sources.items[i] : i \in 1..Len(request.sources.items)}
       IN  /\ Len(promises) <= Cardinality(names)
           /\ Len(promises) = Cardinality({name \in names : CallsOfSource(name, request) # <<>>})

\* C24: calculateConsensus is never invoked with an empty observation list:
\* whenever it has returned a result or thrown, at least one adapter call
\* had been fulfilled with success = true, and the list it was given is the
\* non-empty list of those observations.
C24_ConsensusOnlyWithObservations ==
  /\ (consensusResult # NoConsensus)
       => /\ Len(OkCalls) >= 1
          /\ consensusResult.participatingSources # <<>>
          /\ Len(consensusResult.participatingSources) = Len(OkCalls)
  /\ (pc = "done" /\ response.error = E_UNSUPPORTED) => Len(OkCalls) >= 1

C24_Witness ==
  /\ pc = "persisting"
  /\ consensusResult # NoConsensus
  /\ Len(promises) = 2
  /\ Len(OkCalls) = 1
  /\ \E i \in 1..2 : promises[i].status = FULFILLED /\ ~promises[i].value.success

\* C25: submitOracleData is called at most once per collectData request;
\* the step that calls it is taken when every adapter call has settled and
\* builds the aggregated data in the same step; and a request that ends in
\* failure has never called it.
C25_PersistsOnceAfterAggregation ==
  /\ [](/\ chain.calls <= 1
        /\ (chain.calls = 1)
             => /\ AllSettled(promises)
                /\ Len(OkCalls) >= 1
                /\ aggregatedData # NoAggregatedData
                /\ aggregatedData.dataPoints = OkData
        /\ (pc = "done" /\ ~response.success) => chain.calls = 0)
  /\ [][(chain'.calls > chain.calls)
          => /\ chain.calls = 0
             /\ AllSettled(promises)
             /\ aggregatedData' # NoAggregatedData
             /\ pc' = "persisting"]_vars

C25_Witness ==
  /\ pc = "done"
  /\ response.success
  /\ chain.calls = 1
  /\ chain.status = "resolved"
  /\ Len(promises) = 2
  /\ \E i \in 1..2 : promises[i].status = REJECTED

\* C26: for a non-empty list of price observations whose total weight is
\* positive, WeightedAverage returns the price sum(price_i * w_i) / sum(w_i)
\* with w_i = reliability(source_i) * confidence_i, the confidence
\* min(sum(w_i) / n, 1), and a price between the smallest and the largest
\* observed price.
C26_WeightedAverageFormula ==
  (pc \in {"persisting", "done"} /\ EffectiveMethod(request) = WEIGHTED_AVERAGE
     /\ Len(OkData) > 0)
    => LET n == Len(OkData)
           w == [i \in 1..n |->
                   RMul(getSourceReliability(OkData[i].source), OkData[i].confidence.v)]
           total == RSum(w)
           price == consensusResult.value.price
       IN  RLess(RZero, total)
             => /\ price.present
                /\ price.v = RDiv(RSum([i \in 1..n |-> RMul(OkData[i].value.price.v, w[i])]),
                                  total)
                /\ consensusResult.confidence = RMin(RDivInt(total, n), ROne)
                /\ \E i \in 1..n : RLeq(OkData[i].value.price.v, price.v)
                /\ \E i \in 1..n : RLeq(price.v, OkData[i].value.price.v)

C28_ReturnsOneOfTwoOutcomes ==
  (pc = "done" /\ entry = "direct") =>
    \/ /\ response.success
       /\ response.hasAggregatedData
       /\ response.error = Absent
    \/ /\ ~response.success
       /\ response.error # Absent
       /\ ~response.hasAggregatedData
       /\ ~response.consensusAchieved
       /\ response.sourcesUsed = request.sources.items

\* a call whose consensus method is not supported has returned the failure
\* made in the catch block, and at least one source had answered
C28_Witness ==
  /\ pc = "done"
  /\ entry = "direct"
  /\ response.error = E_UNSUPPORTED
  /\ Len(Successful(responses)) > 0
  /\ Len(request.sources.items) > Len(responses)

\* C29: every source identifier the adapters put on an observation has its
\* own entry in the reliability table (no entry of which is 0.5), so the
\* weighted average computed by collectData never weighs an observation
\* obtained for chainlink, weather or nasa with the 0.5 default
C29_AdapterSourcesHaveReliability ==
  (pc = "persisting" /\ consensusResult.method = WEIGHTED_AVERAGE) =>
    \A i \in 1..Len(Successful(responses)) :
      getSourceReliability(Successful(responses)[i].data.source) # Pct(50)

\* C30: in every successful collectData response consensusAchieved is true
\* exactly when the aggregated confidence is strictly greater than 0.5; in
\* every failure response it is false
C30_AchievedIffConfidenceAboveHalf ==
  (pc = "done" /\ entry = "direct") =>
    IF response.success
    THEN response.consensusAchieved <=> RLess(Rat(1, 2), response.aggregatedData.confidence)
    ELSE ~response.consensusAchieved

\* a successful response whose aggregated confidence is exactly 0.5, so
\* consensusAchieved is false
C30_Witness ==
  /\ pc = "done"
  /\ entry = "direct"
  /\ response.success
  /\ response.aggregatedData.confidence = Rat(1, 2)
  /\ ~response.consensusAchieved

====
